---------------------------- MODULE Spec2Model ----------------------------
(***************************************************************************)
(* A model of the transcript scrapers of yt-disaster-scraper.              *)
(*                                                                         *)
(*   - old_scraper.py: build_corpus with the processed-marker table, run   *)
(*     by several instances, each with its own session, against one        *)
(*     PostgreSQL store (READ COMMITTED, unique primary keys, SELECT       *)
(*     ... FOR UPDATE SKIP LOCKED), and get_transcript with its tiers.     *)
(*   - scraper.py: build_corpus and get_transcript with the in-memory      *)
(*     cache of committed ids and texts.                                   *)
(*   - clean_transcript, on texts that are sequences of characters.        *)
(***************************************************************************)
EXTENDS Integers, Sequences, FiniteSets, TLC

(***************************************************************************)
(* Texts.  A text is a sequence of one-character strings.                  *)
(***************************************************************************)
Digit == {"0", "1", "2", "3", "4", "5", "6", "7", "8", "9"}
Space == {" ", "\n", "\t"}

\* The number of elements of t from position i on that lie in S, up to the
\* first one that does not (a greedy \d+ or \s* of the regular expressions).
RECURSIVE RunLen(_, _, _)
RunLen(t, i, S) ==
  IF i <= Len(t) /\ t[i] \in S THEN 1 + RunLen(t, i + 1, S) ELSE 0

\* The length of the match of \d+:\d+:\d+\s*\n at position i of t, 0 when
\* there is none.  \s* is greedy and \s contains \n, so the match ends at the
\* last line break of the whitespace run that follows the third number.
TimestampMatch(t, i) ==
  LET d1 == RunLen(t, i, Digit)
      c1 == i + d1
      d2 == RunLen(t, c1 + 1, Digit)
      c2 == c1 + 1 + d2
      d3 == RunLen(t, c2 + 1, Digit)
      w  == c2 + 1 + d3
      ws == RunLen(t, w, Space)
      nl == {p \in w..(w + ws - 1) : t[p] = "\n"}
  IN  IF /\ d1 > 0 /\ c1 <= Len(t) /\ t[c1] = ":"
         /\ d2 > 0 /\ c2 <= Len(t) /\ t[c2] = ":"
         /\ d3 > 0 /\ nl # {}
      THEN (CHOOSE p \in nl : \A q \in nl : q <= p) - i + 1
      ELSE 0

\* re.sub(r'\d+:\d+:\d+\s*\n', '', text): leftmost matches, left to right.
RECURSIVE StripTimestamps(_, _)
StripTimestamps(t, i) ==
  IF i > Len(t) THEN <<>>
  ELSE LET m == TimestampMatch(t, i)
       IN  IF m > 0 THEN StripTimestamps(t, i + m)
           ELSE <<t[i]>> \o StripTimestamps(t, i + 1)

\* re.sub(r'\s+', ' ', text)
RECURSIVE CollapseSpace(_, _)
CollapseSpace(t, i) ==
  IF i > Len(t) THEN <<>>
  ELSE IF t[i] \in Space
       THEN <<" ">> \o CollapseSpace(t, i + RunLen(t, i, Space))
       ELSE <<t[i]>> \o CollapseSpace(t, i + 1)

\* The number of elements at the end of t that lie in S.
RECURSIVE TailLen(_, _)
TailLen(t, S) ==
  IF Len(t) > 0 /\ t[Len(t)] \in S
  THEN 1 + TailLen(SubSeq(t, 1, Len(t) - 1), S) ELSE 0

\* A strip that takes the last character of the text with the blanks.
StripOneMore(t) ==
  LET a == RunLen(t, 1, Space)
      b == TailLen(t, Space)
  IN  IF a + b + 1 >= Len(t) THEN <<>> ELSE SubSeq(t, a + 1, Len(t) - b - 1)

\* str.strip()
Strip(t) ==
  LET a == RunLen(t, 1, Space)
      b == TailLen(t, Space)
  IN  IF a = Len(t) THEN <<>> ELSE SubSeq(t, a + 1, Len(t) - b)

\* len(text.split()): the number of maximal runs of non-whitespace.
TokenCount(t) ==
  Cardinality({i \in 1..Len(t) :
                 t[i] \notin Space /\ (i = 1 \/ t[i - 1] \in Space)})

\* str.lower(), on the letters the texts of this model use.
LowerChar(c) ==
  CASE c = "Y" -> "y"
    [] c = "I" -> "i"
    [] c = "A" -> "a"
    [] OTHER   -> c

Lower(t) == [i \in 1..Len(t) |-> LowerChar(t[i])]

\* word in text: a substring test.
Contains(t, w) ==
  \E i \in 1..(Len(t) - Len(w) + 1) : SubSeq(t, i, i + Len(w) - 1) = w

indonesian_indicators ==
  { <<"y", "a", "n", "g">>,
    <<"d", "a", "r", "i">>,
    <<"d", "e", "n", "g", "a", "n">>,
    <<"u", "n", "t", "u", "k">>,
    <<"d", "a", "l", "a", "m">>,
    <<"p", "a", "d", "a">>,
    <<"i", "n", "i">>,
    <<"i", "t", "u">>,
    <<"j", "a", "d", "i">>,
    <<"a", "d", "a">>,
    <<"t", "i", "d", "a", "k">>,
    <<"s", "u", "d", "a", "h">>,
    <<"a", "k", "a", "n">>,
    <<"s", "e", "p", "e", "r", "t", "i">> }

\* A normalization that drops the length check and keeps the indicator check.
clean_transcript_any_length(text) ==
  LET cleaned == Strip(CollapseSpace(StripTimestamps(text, 1), 1))
  IN  IF ~ \E word \in indonesian_indicators :
                  Contains(Lower(cleaned), word)
      THEN <<>>
      ELSE cleaned

\* The least number of tokens of an accepted transcript.
MinTokens == 10

\* clean_transcript: the cleaned text, or the empty text when it is rejected.
clean_transcript(text) ==
  LET cleaned == Strip(CollapseSpace(StripTimestamps(text, 1), 1))
  IN  IF TokenCount(cleaned) < MinTokens THEN <<>>
      ELSE IF ~ \E word \in indonesian_indicators :
                  Contains(Lower(cleaned), word)
           THEN <<>>
           ELSE cleaned

\* Raw texts: an accepted one, one with too few tokens, one without an
\* indicator word, and one with a timestamp line, capitals and runs of blanks.
TextA ==
  <<"y", "a", "n", "g", " ", "d", "a", "r", "i", " ", "d", "e", "n", "g",
    "a", "n", " ", "u", "n", "t", "u", "k", " ", "d", "a", "l", "a", "m",
    " ", "p", "a", "d", "a", " ", "i", "n", "i", " ", "i", "t", "u", " ",
    "j", "a", "d", "i", " ", "a", "d", "a">>
TextShort ==
  <<"y", "a", "n", "g", " ", "d", "a", "r", "i", "\n", " ", "d", "e", "n",
    "g", "a", "n">>
TextNoInd ==
  <<"b", " ", "c", " ", "e", " ", "f", " ", "g", " ", "h", " ", "k", " ",
    "l", " ", "m", " ", "o">>
TextB ==
  <<"0", "0", ":", "0", "0", ":", "0", "1", "\n", "I", "n", "i", " ", "b",
    " ", " ", "c", " ", "e", " ", "f", " ", "g", " ", "h", " ", "k", " ",
    "l", " ", "m", " ">>

\* The raw texts the caption and transcription services hand back.
RawTexts == {TextA, TextShort, TextNoInd}

\* clean_transcript of the texts the services answer with.
Cleaned == [raw \in RawTexts |-> clean_transcript(raw)]


(***************************************************************************)
(* old_scraper.py: get_transcript and get_transcript_with_whisper, as a    *)
(* state machine over the answers of the caption and transcription         *)
(* services.                                                               *)
(***************************************************************************)

\* The number of caption tracks list_transcripts enumerates.
MaxTracks == 2
\* range(3): the attempts of get_transcript_with_whisper.
WhisperAttempts == 3

\* get_transcript's None.
NoneData == [transcript_text |-> <<>>, has_caption |-> FALSE]

\* The dictionary get_transcript returns for a cleaned text, None when
\* clean_transcript rejected it.
TranscriptData(cleaned, caption) ==
  IF cleaned # <<>>
  THEN [transcript_text |-> cleaned, has_caption |-> caption]
  ELSE NoneData

\* A call of get_transcript: the tier it is at, the tracks the generated
\* tier has enumerated, the attempts the local transcription has made, and
\* the value it returns once it is "done".
ResolverInit ==
  [at |-> "native", tracks |-> 0, attempt |-> 0, data |-> NoneData]

Answer(kind, raw) == [kind |-> kind, raw |-> raw]

\* What the service a call is waiting for can answer.
\*  native:    the caption text, NoTranscriptFound or TranscriptsDisabled
\*             ("notfound"), or any other exception ("error");
\*  generated: the track list ("listed") or an exception;
\*  tracks:    the next track is not generated ("manual"), or is generated
\*             and its fetch gives a text or raises, or there is no next
\*             track ("end");
\*  whisper:   the transcribed text, an exception of the download or the
\*             transcription ("error"), or one before the loop ("setup").
Answers(r) ==
  CASE r.at = "native" ->
         {Answer("text", t) : t \in RawTexts}
           \cup {Answer("notfound", <<>>), Answer("error", <<>>)}
    [] r.at = "generated" ->
         {Answer("listed", <<>>), Answer("error", <<>>)}
    [] r.at = "tracks" ->
         {Answer("end", <<>>)}
           \cup (IF r.tracks < MaxTracks
                 THEN {Answer("text", t) : t \in RawTexts}
                        \cup {Answer("manual", <<>>), Answer("error", <<>>)}
                 ELSE {})
    [] r.at = "whisper" ->
         {Answer("text", t) : t \in RawTexts}
           \cup {Answer("error", <<>>)}
           \cup (IF r.attempt = 0 THEN {Answer("setup", <<>>)} ELSE {})
    [] OTHER -> {}

\* get_transcript returns data.
Return(r, data) == [r EXCEPT !.at = "done", !.data = data]

\* A native-caption step that goes on to the generated captions whatever the
\* request gave, an accepted text included.
AfterNativeFallsThrough(r, a) ==
  IF a.kind = "error" THEN Return(r, NoneData) ELSE [r EXCEPT !.at = "generated"]

\* The native-caption request: a text is cleaned and the call returns, with
\* the dictionary or, the text rejected, with None; the handler of
\* NoTranscriptFound and TranscriptsDisabled goes on to the generated
\* captions; the handler of Exception returns None.
AfterNative(r, a) ==
  CASE a.kind = "text" -> Return(r, TranscriptData(Cleaned[a.raw], TRUE))
    [] a.kind = "notfound" -> [r EXCEPT !.at = "generated"]
    [] OTHER -> Return(r, NoneData)

\* list_transcripts: the loop over the tracks, or, on an exception, the
\* inner handler's pass and the local transcription.
AfterList(r, a) ==
  IF a.kind = "listed" THEN [r EXCEPT !.at = "tracks"]
  ELSE [r EXCEPT !.at = "whisper"]

\* One pass of for transcript in available_transcripts: a track that is not
\* generated is passed over; a generated track is fetched and cleaned, an
\* accepted text is returned and a rejected one leaves the loop running; an
\* exception of the fetch and the end of the list go on to the local
\* transcription.
AfterTrack(r, a) ==
  CASE a.kind = "manual" -> [r EXCEPT !.tracks = @ + 1]
    [] a.kind = "text" ->
         IF Cleaned[a.raw] # <<>>
         THEN Return(r, TranscriptData(Cleaned[a.raw], TRUE))
         ELSE [r EXCEPT !.tracks = @ + 1]
    [] OTHER -> [r EXCEPT !.at = "whisper"]

\* A local transcription whose text is returned as a caption.
AfterWhisperCaptioned(r, a) ==
  CASE a.kind = "text" -> Return(r, TranscriptData(Cleaned[a.raw], TRUE))
    [] a.kind = "error" ->
         IF r.attempt + 1 < WhisperAttempts
         THEN [r EXCEPT !.attempt = @ + 1]
         ELSE Return([r EXCEPT !.attempt = @ + 1], NoneData)
    [] OTHER -> Return(r, NoneData)

\* One pass of for attempt in range(3) of get_transcript_with_whisper, and
\* what get_transcript makes of its result: a text is cleaned and returned
\* with has_caption False, None when it is empty; an exception of the pass
\* starts the next pass, and the call returns None after the last one; an
\* exception before the loop returns None.
AfterWhisper(r, a) ==
  CASE a.kind = "text" -> Return(r, TranscriptData(Cleaned[a.raw], FALSE))
    [] a.kind = "error" ->
         IF r.attempt + 1 < WhisperAttempts
         THEN [r EXCEPT !.attempt = @ + 1]
         ELSE Return([r EXCEPT !.attempt = @ + 1], NoneData)
    [] OTHER -> Return(r, NoneData)

\* One step of get_transcript on the answer a.
ResolverStep(r, a) ==
  CASE r.at = "native" -> AfterNative(r, a)
    [] r.at = "generated" -> AfterList(r, a)
    [] r.at = "tracks" -> AfterTrack(r, a)
    [] r.at = "whisper" -> AfterWhisper(r, a)
    [] OTHER -> r

\* The values a call in state r can return.
RECURSIVE Returns(_)
Returns(r) ==
  IF r.at = "done" THEN {r.data}
  ELSE UNION {Returns(ResolverStep(r, a)) : a \in Answers(r)}

\* The values get_transcript can return.
GetTranscriptReturns == Returns(ResolverInit)

(***************************************************************************)
(* The store and the pipeline instances.                                   *)
(***************************************************************************)
Vids == {"v1", "v2"}

\* The calls of old_scraper.py's build_corpus, each with the session it
\* creates: by one process one after the other, or by processes side by side.
OldInsts == {"A", "B"}
\* The instance of scraper.py, with its cache.
CacheInsts == {"P"}
\* Two scraper.py instances that run side by side.
PairInsts == {"P", "Q"}
\* The instance of pytube_scraper.py.
PytubeInsts == {"Y"}
Insts == OldInsts \cup CacheInsts \cup PairInsts \cup PytubeInsts

\* The longest candidate list search_videos hands to build_corpus.
MaxLen == 2

RECURSIVE SeqsUpTo(_)
SeqsUpTo(n) ==
  IF n = 0 THEN {<<>>}
  ELSE LET shorter == SeqsUpTo(n - 1)
       IN  shorter \cup {Append(q, v) : q \in {x \in shorter : Len(x) = n - 1},
                                        v \in Vids}

CandidateLists == SeqsUpTo(MaxLen)

\* What youtube_transcript_corpus can hold before any build_corpus call: the
\* seeder loads the corpus table alone, without processed markers.
SeedRow ==
  [transcript_text |-> clean_transcript(TextB), has_caption |-> TRUE,
   by |-> "seed"]
SeedStores ==
  {[v \in Vids |-> <<>>], [v \in Vids |-> IF v = "v1" THEN <<SeedRow>> ELSE <<>>]}

VARIABLES
  corpus,             \* youtube_transcript_corpus: the committed rows of each id
  processed,          \* youtube_processed_data: the committed rows of each id
  pc,                 \* where each instance is in build_corpus
  run,                \* scraper.py: the build_corpus calls an instance made
  videos,             \* build_corpus: videos
  idx,                \* build_corpus: the position of the for loop, from 1
  processed_count,    \* build_corpus: processed_count
  flushed,            \* the marker rows a session flushed and not committed
  locks,              \* the row locks a session's transaction holds
  existing,           \* build_corpus: existing_corpus, existing_processed
  transcript_data,    \* build_corpus: transcript_data
  cached_video_ids,   \* scraper.py: self.cached_video_ids
  cached_transcripts, \* scraper.py: self.cached_transcripts
  res,                \* a call of get_transcript, step by step
  calls,              \* history: the tiers and answers of that call
  audio,              \* downloaded_audio/<id>.mp3: the file of each id
  wh,                 \* the calls of get_transcript_with_whisper
  touched,            \* history: files an instance touched that another wrote
  norm,               \* a call of clean_transcript: its text and what it returns
  search,             \* a call of search_videos: its inputs and what it returns
  existing_entries,   \* pytube_scraper.py build_corpus: existing_entries
  log                 \* history: how each candidate of a build_corpus call ended

vars ==
  <<corpus, processed, pc, run, videos, idx, processed_count, flushed, locks,
    existing, transcript_data, cached_video_ids, cached_transcripts, res,
    calls, audio, wh, touched, norm, search, existing_entries, log>>

\* The variables of the scraper.py cache.
cache == <<cached_video_ids, cached_transcripts>>
\* The variables of get_transcript_with_whisper.
whisper == <<audio, wh, touched>>
\* The variables of the step-by-step get_transcript, of the local
\* transcription and of the call of clean_transcript.
stepwise == <<res, calls, whisper, norm, search, existing_entries>>

video_id(s) == videos[s][idx[s]]

\* Whether a table holds a committed row with key v.
Has(table, v) == table[v] # <<>>

NotExisting == [corpus |-> FALSE, processed |-> FALSE]

InitLocal ==
  /\ pc = [s \in Insts |-> "idle"]
  /\ run = [s \in Insts |-> 0]
  /\ videos = [s \in Insts |-> <<>>]
  /\ idx = [s \in Insts |-> 1]
  /\ processed_count = [s \in Insts |-> 0]
  /\ flushed = [s \in Insts |-> {}]
  /\ locks = [s \in Insts |-> {}]
  /\ existing = [s \in Insts |-> NotExisting]
  /\ transcript_data = [s \in Insts |-> NoneData]
  /\ log = [s \in Insts |-> <<>>]

\* _load_cache: the ids and the non-empty texts of the rows of the table.
LoadedIds(table) == {v \in Vids : Has(table, v)}
LoadedTranscripts(table) ==
  {table[v][i].transcript_text : v \in LoadedIds(table), i \in {1}} \ {<<>>}

\* The callers of get_transcript_with_whisper: processes started in one
\* working directory, which share the directory downloaded_audio.
WhInsts == {"W1", "W2"}

\* No file at a path of downloaded_audio.
NoFile == [by |-> "none", empty |-> FALSE]

\* A caller that has not called get_transcript_with_whisper.
IdleCall ==
  [prog |-> "none", video |-> "none", pc |-> "idle", attempt |-> 0,
   failed |-> 0, text |-> <<>>]

\* No call of search_videos.
NoSearch ==
  [program |-> "none", page |-> <<>>, cached |-> {}, max_results |-> 0,
   pc |-> "none", result |-> <<>>, requests |-> 0]

\* No call of clean_transcript.
NoCall == [text |-> <<>>, pc |-> "none", result |-> <<>>, again |-> <<>>]

Init ==
  /\ corpus \in SeedStores
  /\ cached_video_ids =
       [s \in Insts |-> IF s \in CacheInsts \cup PairInsts
                        THEN LoadedIds(corpus) ELSE {}]
  /\ cached_transcripts =
       [s \in Insts |-> IF s \in CacheInsts \cup PairInsts
                        THEN LoadedTranscripts(corpus) ELSE {}]
  /\ processed = [v \in Vids |-> <<>>]
  /\ InitLocal
  /\ res = ResolverInit
  /\ calls = <<>>
  /\ audio = [v \in Vids |-> NoFile]
  /\ wh = [w \in WhInsts |-> IdleCall]
  /\ touched = {}
  /\ norm = NoCall
  /\ search = NoSearch
  /\ existing_entries = {}

(***************************************************************************)
(* old_scraper.py: build_corpus.                                           *)
(***************************************************************************)

\* The for loop's next step once the iteration at position i - 1 has ended:
\* the next candidate's claim check, or session.close() and the return.
LoopPc(s, i) == IF i <= Len(videos[s]) THEN "check_corpus" ELSE "done"

\* build_corpus is called: a new session, processed_count = 0, and
\* search_videos hands back the candidates.
BuildCorpus(s) ==
  /\ pc[s] = "idle"
  /\ \E vs \in CandidateLists :
       /\ videos' = [videos EXCEPT ![s] = vs]
       /\ pc' = [pc EXCEPT ![s] = IF 1 <= Len(vs) THEN "check_corpus" ELSE "done"]
  /\ idx' = [idx EXCEPT ![s] = 1]
  /\ processed_count' = [processed_count EXCEPT ![s] = 0]
  /\ log' = [log EXCEPT ![s] = <<>>]
  /\ UNCHANGED <<corpus, processed, run, flushed, locks, existing,
                 transcript_data, cache, stepwise>>

\* search_videos raises part-way: its handler has the videos fetched so far.
SearchRaises(s) ==
  /\ pc[s] = "idle"
  /\ \E vs \in CandidateLists : videos' = [videos EXCEPT ![s] = vs]
  /\ pc' = [pc EXCEPT ![s] = "search_failed"]
  /\ idx' = [idx EXCEPT ![s] = 1]
  /\ processed_count' = [processed_count EXCEPT ![s] = 0]
  /\ log' = [log EXCEPT ![s] = <<>>]
  /\ UNCHANGED <<corpus, processed, run, flushed, locks, existing,
                 transcript_data, cache, stepwise>>

\* except Exception: logger.error; return videos[:max_results], and
\* build_corpus starts its loop over them.
SearchReturns(s) ==
  /\ pc[s] = "search_failed"
  /\ pc' = [pc EXCEPT ![s] = LoopPc(s, 1)]
  /\ UNCHANGED <<corpus, processed, run, videos, idx, processed_count, flushed,
                 locks, existing, transcript_data, cache, stepwise, log>>

\* SELECT ... FOR UPDATE SKIP LOCKED of the row with key v: the committed row,
\* unless another transaction holds its lock, in which case the row is
\* skipped and the query finds nothing.
SelectForUpdateSkipLocked(s, name, table, v) ==
  /\ Has(table, v)
  /\ \A t \in Insts \ {s} : <<name, v>> \notin locks[t]

\* existing_corpus = session.query(YouTubeTranscriptCorpus)...first()
CheckCorpus(s) ==
  /\ pc[s] = "check_corpus"
  /\ LET found == SelectForUpdateSkipLocked(s, "corpus", corpus, video_id(s))
     IN  /\ existing' = [existing EXCEPT ![s] = [corpus |-> found, processed |-> FALSE]]
         /\ locks' = [locks EXCEPT ![s] =
                        IF found THEN @ \cup {<<"corpus", video_id(s)>>} ELSE @]
  /\ pc' = [pc EXCEPT ![s] = "check_processed"]
  /\ UNCHANGED <<corpus, processed, run, videos, idx, processed_count, flushed,
                 transcript_data, cache, stepwise, log>>

\* existing_processed = session.query(YouTubeProcessedData)...first()
CheckProcessed(s) ==
  /\ pc[s] = "check_processed"
  /\ LET found == SelectForUpdateSkipLocked(s, "processed", processed, video_id(s))
     IN  /\ existing' = [existing EXCEPT ![s].processed = found]
         /\ locks' = [locks EXCEPT ![s] =
                        IF found THEN @ \cup {<<"processed", video_id(s)>>} ELSE @]
  /\ pc' = [pc EXCEPT ![s] = "decide"]
  /\ UNCHANGED <<corpus, processed, run, videos, idx, processed_count, flushed,
                 transcript_data, cache, stepwise, log>>

\* if existing_corpus or existing_processed
AlreadyProcessed(e) == e.corpus \/ e.processed

\* A skip branch whose commit writes a marker row for the candidate.
SkipWritesMarker(s) == {video_id(s)}

\* The rows the session.commit() of the skip branch writes: none.
SkipWrites(s) == {}

\* A commit that loses the marker rows of the session.
CommittedNothing(table, s, ids) == table

\* The marker rows a session's commit makes visible.
Committed(table, s, ids) ==
  [v \in Vids |-> IF v \in ids THEN Append(table[v], [by |-> s]) ELSE table[v]]

\* A skip that goes on to the next candidate without session.commit(): the
\* row locks of the two selects stay with the session.
SkipExistingWithoutCommit(s) ==
  /\ pc[s] = "decide"
  /\ AlreadyProcessed(existing[s])
  /\ existing' = [existing EXCEPT ![s] = NotExisting]
  /\ log' = [log EXCEPT ![s] = Append(@, "already")]
  /\ idx' = [idx EXCEPT ![s] = @ + 1]
  /\ pc' = [pc EXCEPT ![s] = LoopPc(s, idx[s] + 1)]
  /\ UNCHANGED <<corpus, processed, run, videos, processed_count, flushed,
                 locks, transcript_data, cache, stepwise>>

\* ... : session.commit(); continue
SkipExisting(s) ==
  /\ pc[s] = "decide"
  /\ AlreadyProcessed(existing[s])
  /\ processed' = Committed(processed, s, SkipWrites(s))
  /\ locks' = [locks EXCEPT ![s] = {}]
  /\ existing' = [existing EXCEPT ![s] = NotExisting]
  /\ log' = [log EXCEPT ![s] = Append(@, "already")]
  /\ idx' = [idx EXCEPT ![s] = @ + 1]
  /\ pc' = [pc EXCEPT ![s] = LoopPc(s, idx[s] + 1)]
  /\ UNCHANGED <<corpus, run, videos, processed_count, flushed,
                 transcript_data, cache, stepwise>>

\* An INSERT that also waits on a committed row with the key, which no
\* commit or rollback ever releases.
InsertWaitsOnCommitted(s, v) ==
  \/ \E t \in Insts \ {s} : v \in flushed[t]
  \/ Has(processed, v)

\* The INSERT of a row with key v waits while another transaction holds an
\* uncommitted row with that key.
InsertWaits(s, v) == \E t \in Insts \ {s} : v \in flushed[t]

\* A marker table without the unique index.
MarkerConflictNever(v) == FALSE

\* The unique index on youtube_processed_data.id: the INSERT raises
\* IntegrityError when a committed row has the key.
MarkerConflict(v) == Has(processed, v)

\* A corpus table without the unique index.
CorpusConflictNever(v) == FALSE

\* The unique index on youtube_transcript_corpus.id.
CorpusConflict(v) == Has(corpus, v)

\* A handler that goes on without session.rollback(): what the session has
\* flushed stays in its transaction.
RollbackKeepsFlushed(s) ==
  /\ locks' = [locks EXCEPT ![s] = {}]
  /\ existing' = [existing EXCEPT ![s] = NotExisting]
  /\ transcript_data' = [transcript_data EXCEPT ![s] = NoneData]
  /\ log' = [log EXCEPT ![s] = Append(@, "conflict")]
  /\ idx' = [idx EXCEPT ![s] = @ + 1]
  /\ pc' = [pc EXCEPT ![s] = LoopPc(s, idx[s] + 1)]
  /\ UNCHANGED flushed

\* except IntegrityError: session.rollback(); continue
Rollback(s) ==
  /\ flushed' = [flushed EXCEPT ![s] = {}]
  /\ locks' = [locks EXCEPT ![s] = {}]
  /\ existing' = [existing EXCEPT ![s] = NotExisting]
  /\ transcript_data' = [transcript_data EXCEPT ![s] = NoneData]
  /\ log' = [log EXCEPT ![s] = Append(@, "conflict")]
  /\ idx' = [idx EXCEPT ![s] = @ + 1]
  /\ pc' = [pc EXCEPT ![s] = LoopPc(s, idx[s] + 1)]

\* A flush that writes no marker row.
FlushedNothing(v) == {}

\* What session.flush() writes before the transcript work: the marker row.
FlushedBeforeTranscript(v) == {v}

\* session.add(processed_entry); session.flush()
MarkProcessed(s) ==
  /\ pc[s] = "decide"
  /\ ~ AlreadyProcessed(existing[s])
  /\ ~ InsertWaits(s, video_id(s))
  /\ IF MarkerConflict(video_id(s))
     THEN Rollback(s)
     ELSE /\ flushed' = [flushed EXCEPT ![s] = @ \cup FlushedBeforeTranscript(video_id(s))]
          /\ pc' = [pc EXCEPT ![s] = "resolve"]
          /\ UNCHANGED <<locks, existing, transcript_data, log, idx>>
  /\ UNCHANGED <<corpus, processed, run, videos, processed_count, cache,
                 stepwise>>

\* transcript_data = self.get_transcript(video_id)
GetTranscript(s) ==
  /\ pc[s] = "resolve"
  /\ \E data \in GetTranscriptReturns :
       transcript_data' = [transcript_data EXCEPT ![s] = data]
  /\ pc' = [pc EXCEPT ![s] = "store"]
  /\ UNCHANGED <<corpus, processed, run, videos, idx, processed_count, flushed,
                 locks, existing, cache, stepwise, log>>

\* if transcript_data and transcript_data['transcript_text']
HasTranscript(data) == data # NoneData /\ data.transcript_text # <<>>

CorpusRow(s) ==
  [transcript_text |-> transcript_data[s].transcript_text,
   has_caption |-> transcript_data[s].has_caption, by |-> s]

\* A count that the commit of an entry leaves as it is.
CountedNothing(n) == n

\* A count that takes the commit of one entry for two.
CountedTwice(n) == n + 2

\* processed_count after the commit of an entry.
Counted(n) == n + 1

\* session.add(corpus_entry); session.commit(); processed_count += 1, or the
\* else branch's session.commit(), or the IntegrityError handler.
StoreResult(s) ==
  /\ pc[s] = "store"
  /\ IF HasTranscript(transcript_data[s])
     THEN IF CorpusConflict(video_id(s))
          THEN /\ Rollback(s)
               /\ UNCHANGED <<corpus, processed, processed_count>>
          ELSE /\ corpus' = [corpus EXCEPT ![video_id(s)] = Append(@, CorpusRow(s))]
               /\ processed' = Committed(processed, s, flushed[s])
               /\ processed_count' = [processed_count EXCEPT ![s] = Counted(@)]
               /\ log' = [log EXCEPT ![s] = Append(@, "committed")]
               /\ flushed' = [flushed EXCEPT ![s] = {}]
               /\ locks' = [locks EXCEPT ![s] = {}]
               /\ transcript_data' = [transcript_data EXCEPT ![s] = NoneData]
               /\ pc' = [pc EXCEPT ![s] = "sleep"]
               /\ UNCHANGED <<idx, existing>>
     ELSE /\ processed' = Committed(processed, s, flushed[s])
          /\ log' = [log EXCEPT ![s] = Append(@, "unavailable")]
          /\ flushed' = [flushed EXCEPT ![s] = {}]
          /\ locks' = [locks EXCEPT ![s] = {}]
          /\ transcript_data' = [transcript_data EXCEPT ![s] = NoneData]
          /\ pc' = [pc EXCEPT ![s] = "sleep"]
          /\ UNCHANGED <<corpus, processed_count, idx, existing>>
  /\ UNCHANGED <<run, videos, cache, stepwise>>

\* A loop that passes over the candidate after the one that was stored.
SleepPassingOver(s) ==
  /\ pc[s] = "sleep"
  /\ idx' = [idx EXCEPT ![s] = @ + 2]
  /\ pc' = [pc EXCEPT ![s] = LoopPc(s, idx[s] + 2)]
  /\ UNCHANGED <<corpus, processed, run, videos, processed_count, flushed,
                 locks, existing, transcript_data, cache, stepwise, log>>

\* time.sleep(1), and the for loop's next step.
Sleep(s) ==
  /\ pc[s] = "sleep"
  /\ idx' = [idx EXCEPT ![s] = @ + 1]
  /\ pc' = [pc EXCEPT ![s] = LoopPc(s, idx[s] + 1)]
  /\ UNCHANGED <<corpus, processed, run, videos, processed_count, flushed,
                 locks, existing, transcript_data, cache, stepwise, log>>

\* A rollback of the outer handler that also takes back what the call
\* committed for the earlier candidates of the batch.
StoreFailsUndoingBatch(s) ==
  /\ pc[s] \in {"check_corpus", "check_processed", "decide", "store"}
  /\ corpus' = [v \in Vids |-> SelectSeq(corpus[v], LAMBDA r : r.by # s)]
  /\ processed' = [v \in Vids |-> SelectSeq(processed[v], LAMBDA r : r.by # s)]
  /\ flushed' = [flushed EXCEPT ![s] = {}]
  /\ locks' = [locks EXCEPT ![s] = {}]
  /\ existing' = [existing EXCEPT ![s] = NotExisting]
  /\ transcript_data' = [transcript_data EXCEPT ![s] = NoneData]
  /\ pc' = [pc EXCEPT ![s] = "raised"]
  /\ UNCHANGED <<run, videos, idx, processed_count, cache, stepwise, log>>

\* A statement of the session raises an exception that is not an
\* IntegrityError (the store is unreachable, or it rejects the statement):
\* except Exception: session.rollback(); raise
StoreFails(s) ==
  /\ pc[s] \in {"check_corpus", "check_processed", "decide", "store"}
  /\ flushed' = [flushed EXCEPT ![s] = {}]
  /\ locks' = [locks EXCEPT ![s] = {}]
  /\ existing' = [existing EXCEPT ![s] = NotExisting]
  /\ transcript_data' = [transcript_data EXCEPT ![s] = NoneData]
  /\ pc' = [pc EXCEPT ![s] = "raised"]
  /\ UNCHANGED <<corpus, processed, run, videos, idx, processed_count, cache,
                 stepwise, log>>

\* The steps of build_corpus that end once the store and the services answer.
Step(s) ==
  \/ SearchReturns(s)
  \/ CheckCorpus(s)
  \/ CheckProcessed(s)
  \/ SkipExisting(s)
  \/ MarkProcessed(s)
  \/ GetTranscript(s)
  \/ StoreResult(s)
  \/ Sleep(s)

Next ==
  \E s \in OldInsts :
    \/ BuildCorpus(s)
    \/ SearchRaises(s)
    \/ Step(s)
    \/ StoreFails(s)

Spec == Init /\ [][Next]_vars

\* The store and the services answer every request of a running call: a
\* step that can be taken is taken.  Nothing makes a store failure happen.
FairSpec == Spec /\ \A s \in OldInsts : WF_vars(Step(s))

(***************************************************************************)
(* Properties of old_scraper.py's build_corpus.                            *)
(***************************************************************************)

\* The positions of the current call's list at which v's iteration has ended.
Ended(s, v) == {i \in 1..Len(log[s]) : videos[s][i] = v}

\* The call obtained the claim on v: its marker insert succeeded and was
\* committed, with or without an entry.
Claimed(s, v) == \E i \in Ended(s, v) : log[s][i] \in {"committed", "unavailable"}

\* The call tried v and observed AlreadyProcessed or a conflict every time.
Lost(s, v) ==
  /\ Ended(s, v) # {}
  /\ \A i \in Ended(s, v) : log[s][i] \in {"already", "conflict"}

\* No committed row has key v.
Fresh(v) == ~ Has(corpus, v) /\ ~ Has(processed, v)

Seeded(v) == \E i \in 1..Len(corpus[v]) : corpus[v][i].by = "seed"

\* C1: when two build_corpus calls race on a video id that was in neither
\* table, exactly one of them obtains the claim and the other observes
\* AlreadyProcessed or a conflict, and neither table ever holds two committed
\* rows for one id.
C1_ExactlyOneClaim ==
  \A v \in Vids :
    /\ Len(corpus[v]) <= 1
    /\ Len(processed[v]) <= 1
    /\ Cardinality({s \in OldInsts : v \in flushed[s]}) <= 1
    /\ \A s \in OldInsts : \A t \in OldInsts \ {s} :
         (~ Seeded(v) /\ Ended(s, v) # {} /\ Ended(t, v) # {})
           => \/ Claimed(s, v) /\ Lost(t, v)
              \/ Claimed(t, v) /\ Lost(s, v)

\* Both calls tried v2, which no table held: A obtained the claim and B ran
\* into the unique index.
C1_Witness ==
  /\ Claimed("A", "v2")
  /\ Ended("B", "v2") # {}
  /\ \A i \in Ended("B", "v2") : log["B"][i] = "conflict"

\* C2: a build_corpus call never calls get_transcript for a video id that
\* already has a committed ProcessedMarker or CorpusEntry.
C2_NoResolveOfProcessed ==
  \A s \in OldInsts : pc[s] = "resolve" => Fresh(video_id(s))

\* The number of entries of a log that are "committed".
CommitCount(l) == Cardinality({i \in 1..Len(l) : l[i] = "committed"})

\* C3: when get_transcript returned None for a claimed video, no entry was
\* created for it, its marker is committed and stays, the processed count did
\* not count it, and no call invokes get_transcript for that id afterwards.
C3_UnavailableKeepsMarker ==
  \A s \in OldInsts : \A i \in 1..Len(log[s]) :
    log[s][i] = "unavailable" =>
      LET v == videos[s][i]
      IN  /\ \E j \in 1..Len(processed[v]) : processed[v][j].by = s
          /\ \A j \in 1..Len(corpus[v]) : corpus[v][j].by \notin OldInsts
          /\ processed_count[s] = CommitCount(log[s])
          /\ \A t \in OldInsts : pc[t] \in {"resolve", "store"} => video_id(t) # v

\* A call ended with v1 unavailable, and the other call, started on v1 after
\* that, has ended too.
C3_Witness ==
  /\ pc["A"] = "done" /\ pc["B"] = "done"
  /\ videos["A"] = <<"v1">> /\ log["A"] = <<"unavailable">>
  /\ videos["B"] = <<"v1">> /\ log["B"] = <<"already">>

\* C5: whenever get_transcript is invoked for a video id, the call's session
\* has written the ProcessedMarker of that id to the store.
C5_MarkerBeforeTranscript ==
  \A s \in OldInsts : pc[s] = "resolve" => video_id(s) \in flushed[s]

C5_Witness == \E s \in OldInsts : pc[s] = "resolve" /\ video_id(s) = "v2"

\* The call's marker insert at position i waits for another transaction.
WaitingOn(s, i) ==
  /\ pc[s] = "decide" /\ idx[s] = i
  /\ ~ AlreadyProcessed(existing[s])
  /\ InsertWaits(s, video_id(s))

\* The iteration at position i ended with AlreadyProcessed or a conflict.
Observed(s, i) == Len(log[s]) >= i /\ log[s][i] \in {"already", "conflict"}

NoDuplicateRow == \A v \in Vids : Len(corpus[v]) <= 1 /\ Len(processed[v]) <= 1

\* C6, as claimed: a call whose marker insert waits for the call that holds
\* the claim eventually observes AlreadyProcessed or a conflict (unless the
\* store fails under its own statement), and never inserts a duplicate row.
C6_WaiterObservesConflict ==
  /\ \A s \in OldInsts : \A i \in 1..MaxLen :
       WaitingOn(s, i) ~> (Observed(s, i) \/ pc[s] = "raised")
  /\ [] NoDuplicateRow

\* C6, amended: the wait ends.  The waiting call observes a conflict and moves
\* on, or obtains the claim itself after a store failure rolled the holder's
\* transaction back, or is itself ended by a store failure; it never inserts
\* a duplicate row.
C6_WaitEnds ==
  /\ \A s \in OldInsts : \A i \in 1..MaxLen :
       WaitingOn(s, i) ~>
         \/ Observed(s, i)
         \/ pc[s] = "raised"
         \/ /\ pc[s] = "resolve" /\ idx[s] = i
            /\ \E t \in OldInsts \ {s} : pc[t] = "raised"
  /\ [] NoDuplicateRow

\* B's marker insert waits for A, whose get_transcript has returned.
C6_Witness ==
  /\ WaitingOn("B", 1)
  /\ pc["A"] = "store" /\ video_id("A") = video_id("B")

\* C7: when the claim check found the id in the corpus table or in the marker
\* table, the iteration changes neither table and goes on to the next
\* candidate (unless the store fails under its commit).
C7_SkipLeavesTables ==
  [][\A s \in OldInsts :
       (pc[s] = "decide" /\ AlreadyProcessed(existing[s]) /\ pc'[s] # "decide")
         => /\ corpus' = corpus
            /\ processed' = processed
            /\ \/ pc'[s] = "raised"
               \/ /\ idx'[s] = idx[s] + 1
                  /\ pc'[s] = LoopPc(s, idx[s] + 1)]_vars

\* A call skipped v1 as already processed and is at its next candidate.
C7_Witness ==
  \E s \in OldInsts :
    /\ Len(log[s]) >= 1 /\ log[s][1] = "already"
    /\ pc[s] = "check_corpus" /\ idx[s] = 2

(***************************************************************************)
(* One call of old_scraper.py's get_transcript, step by step.              *)
(***************************************************************************)

\* The call takes the answer of the service it waits for.
GetTranscriptStep ==
  /\ res.at # "done"
  /\ \E a \in Answers(res) :
       /\ res' = ResolverStep(res, a)
       /\ calls' = Append(calls, [at |-> res.at, kind |-> a.kind, raw |-> a.raw])
  /\ UNCHANGED <<corpus, processed, pc, run, videos, idx, processed_count,
                 flushed, locks, existing, transcript_data, cache, whisper,
                 norm, search, existing_entries, log>>

SpecResolver == Init /\ [][GetTranscriptStep]_vars

\* The tier a step of the call belongs to: 1 native caption, 2 generated
\* caption, 3 local transcription.
TierRank(at) ==
  CASE at = "native" -> 1
    [] at \in {"generated", "tracks"} -> 2
    [] OTHER -> 3

\* The step produced a text that clean_transcript accepted.
Succeeded(c) == c.kind = "text" /\ clean_transcript(c.raw) # <<>>

\* C9: get_transcript tries native caption, generated caption and local
\* transcription in this order, a later tier only after the earlier one has
\* failed, and nothing after a tier has succeeded.
C9_TierOrder ==
  /\ \A i \in 1..Len(calls) : (i = 1) <=> (calls[i].at = "native")
  /\ \A i \in 1..(Len(calls) - 1) :
       /\ TierRank(calls[i].at) <= TierRank(calls[i + 1].at)
       /\ TierRank(calls[i + 1].at) <= TierRank(calls[i].at) + 1
       /\ ~ Succeeded(calls[i])
  /\ (calls # <<>> /\ Succeeded(calls[Len(calls)])) =>
       /\ res.at = "done"
       /\ res.data.transcript_text = clean_transcript(calls[Len(calls)].raw)
  /\ (calls # <<>> /\ res.at # "done") =>
       TierRank(calls[Len(calls)].at) <= TierRank(res.at)

\* The native caption was not found, no generated track gave a text, and the
\* second attempt of the local transcription succeeded.
C9_Witness ==
  /\ res.at = "done" /\ res.data.transcript_text # <<>> /\ res.attempt = 1
  /\ \E i \in 1..Len(calls) : calls[i].at = "tracks" /\ calls[i].kind = "text"

\* C10: when the native-caption request fails with an error other than
\* NoTranscriptFound or TranscriptsDisabled, get_transcript goes on to the
\* generated-caption tier instead of ending the call.
C10_ErrorFallsThrough ==
  (calls # <<>> /\ calls[1].at = "native" /\ calls[1].kind = "error")
    => \/ res.at = "generated"
       \/ \E i \in 1..Len(calls) : calls[i].at = "generated"

(***************************************************************************)
(* scraper.py: the pipeline that keeps a cache and no processed markers.   *)
(* It writes the same youtube_transcript_corpus table as old_scraper.py.   *)
(***************************************************************************)

\* The build_corpus calls one scraper.py instance makes at most.
MaxRuns == 2

\* The old_scraper.py call that runs beside the scraper.py instances.
MixedOldInsts == {"A"}

\* __init__ of a new process: _load_cache.
Construct(s) ==
  /\ pc[s] = "done"
  /\ run[s] < MaxRuns
  /\ cached_video_ids' = [cached_video_ids EXCEPT ![s] = LoadedIds(corpus)]
  /\ cached_transcripts' = [cached_transcripts EXCEPT ![s] = LoadedTranscripts(corpus)]
  /\ pc' = [pc EXCEPT ![s] = "idle"]
  /\ UNCHANGED <<corpus, processed, run, videos, idx, processed_count, flushed,
                 locks, existing, transcript_data, stepwise, log>>

\* search_videos: the items whose id is neither cached nor seen before.
RECURSIVE SearchVideos(_, _, _)
SearchVideos(items, cached, seen) ==
  IF items = <<>> THEN <<>>
  ELSE IF Head(items) \notin cached /\ Head(items) \notin seen
       THEN <<Head(items)>> \o SearchVideos(Tail(items), cached, seen \cup {Head(items)})
       ELSE SearchVideos(Tail(items), cached, seen)

\* The for loop's next step in scraper.py's build_corpus.
CacheLoopPc(vs, i) == IF i <= Len(vs) THEN "c_check" ELSE "done"

\* build_corpus is called: a new session, processed_count = 0, search_videos.
CacheBuildCorpus(s) ==
  /\ pc[s] \in {"idle", "done"}
  /\ run[s] < MaxRuns
  /\ run' = [run EXCEPT ![s] = @ + 1]
  /\ \E items \in CandidateLists :
       LET vs == SearchVideos(items, cached_video_ids[s], {})
       IN  /\ videos' = [videos EXCEPT ![s] = vs]
           /\ pc' = [pc EXCEPT ![s] = CacheLoopPc(vs, 1)]
  /\ idx' = [idx EXCEPT ![s] = 1]
  /\ processed_count' = [processed_count EXCEPT ![s] = 0]
  /\ UNCHANGED <<corpus, processed, flushed, locks, existing, transcript_data,
                 cache, stepwise, log>>

\* One line of a scraper.py instance's history.
Entry(s, what) == [run |-> run[s], id |-> video_id(s), what |-> what]

\* get_transcript, the duplicate checks: the id is in the cache, or the
\* table has a row with it (and the id is added to the cache): return None;
\* time.sleep(1).
CacheCheck(s) ==
  /\ pc[s] = "c_check"
  /\ IF video_id(s) \in cached_video_ids[s]
     THEN /\ pc' = [pc EXCEPT ![s] = CacheLoopPc(videos[s], idx[s] + 1)]
          /\ idx' = [idx EXCEPT ![s] = @ + 1]
          /\ log' = [log EXCEPT ![s] = Append(@, Entry(s, "cached"))]
          /\ UNCHANGED cached_video_ids
     ELSE IF Has(corpus, video_id(s))
     THEN /\ cached_video_ids' = [cached_video_ids EXCEPT ![s] = @ \cup {video_id(s)}]
          /\ pc' = [pc EXCEPT ![s] = CacheLoopPc(videos[s], idx[s] + 1)]
          /\ idx' = [idx EXCEPT ![s] = @ + 1]
          /\ log' = [log EXCEPT ![s] = Append(@, Entry(s, "cached"))]
     ELSE /\ pc' = [pc EXCEPT ![s] = "c_resolve"]
          /\ UNCHANGED <<cached_video_ids, idx, log>>
  /\ UNCHANGED <<corpus, processed, run, videos, processed_count, flushed,
                 locks, existing, transcript_data, cached_transcripts, stepwise>>

\* What the caption service and the local transcription answer to one call.
CacheAnswers ==
  {[native |-> n, whisper |-> w] :
     n \in {Answer("text", raw) : raw \in RawTexts}
             \cup {Answer("notfound", <<>>), Answer("error", <<>>)},
     w \in {Answer("text", raw) : raw \in RawTexts} \cup {Answer("error", <<>>)}}

\* get_transcript after the duplicate checks: the native caption, and the
\* local transcription when there is no native caption.
CacheResolution(cached, a) ==
  IF a.native.kind = "text"
  THEN LET cleaned == Cleaned[a.native.raw]
       IN  IF cleaned = <<>> THEN [data |-> NoneData, what |-> "unavailable"]
           ELSE IF cleaned \in cached THEN [data |-> NoneData, what |-> "duplicate"]
           ELSE [data |-> TranscriptData(cleaned, TRUE), what |-> "found"]
  ELSE IF a.native.kind = "notfound"
  THEN LET text == IF a.whisper.kind = "text"
                   THEN Cleaned[a.whisper.raw] ELSE <<>>
       IN  IF text # <<>>
           THEN [data |-> TranscriptData(text, FALSE), what |-> "found"]
           ELSE [data |-> NoneData, what |-> "unavailable"]
  ELSE [data |-> NoneData, what |-> "unavailable"]

\* The words the history has for a transcript resolution that was made.
Resolutions == {"unavailable", "duplicate", "found"}

\* transcript_data = self.get_transcript(video_id), after the checks.
CacheResolve(s) ==
  /\ pc[s] = "c_resolve"
  /\ \E r \in {CacheResolution(cached_transcripts[s], a) : a \in CacheAnswers} :
       /\ transcript_data' = [transcript_data EXCEPT ![s] = r.data]
       /\ log' = [log EXCEPT ![s] = Append(@, Entry(s, r.what))]
  /\ pc' = [pc EXCEPT ![s] = "c_store"]
  /\ UNCHANGED <<corpus, processed, run, videos, idx, processed_count, flushed,
                 locks, existing, cache, stepwise>>

\* session.add(corpus_entry); session.commit() and the cache update, or the
\* IntegrityError handler, or nothing; then time.sleep(1).
CacheStore(s) ==
  /\ pc[s] = "c_store"
  /\ IF HasTranscript(transcript_data[s])
     THEN IF CorpusConflict(video_id(s))
          THEN /\ log' = [log EXCEPT ![s] = Append(@, Entry(s, "conflict"))]
               /\ UNCHANGED <<corpus, cache, processed_count>>
          ELSE /\ corpus' = [corpus EXCEPT ![video_id(s)] = Append(@, CorpusRow(s))]
               /\ cached_video_ids' = [cached_video_ids EXCEPT ![s] = @ \cup {video_id(s)}]
               /\ cached_transcripts' =
                    [cached_transcripts EXCEPT
                       ![s] = @ \cup {transcript_data[s].transcript_text}]
               /\ processed_count' = [processed_count EXCEPT ![s] = Counted(@)]
               /\ log' = [log EXCEPT ![s] = Append(@, Entry(s, "committed"))]
     ELSE UNCHANGED <<corpus, cache, processed_count, log>>
  /\ transcript_data' = [transcript_data EXCEPT ![s] = NoneData]
  /\ idx' = [idx EXCEPT ![s] = @ + 1]
  /\ pc' = [pc EXCEPT ![s] = CacheLoopPc(videos[s], idx[s] + 1)]
  /\ UNCHANGED <<processed, run, videos, flushed, locks, existing, stepwise>>

\* A failing commit after which the id and the text are put in the cache
\* all the same.
CacheStoreFailsAfterCaching(s) ==
  /\ pc[s] = "c_store" /\ HasTranscript(transcript_data[s])
  /\ cached_video_ids' = [cached_video_ids EXCEPT ![s] = @ \cup {video_id(s)}]
  /\ cached_transcripts' =
       [cached_transcripts EXCEPT
          ![s] = @ \cup {transcript_data[s].transcript_text}]
  /\ transcript_data' = [transcript_data EXCEPT ![s] = NoneData]
  /\ pc' = [pc EXCEPT ![s] = "done"]
  /\ UNCHANGED <<corpus, processed, run, videos, idx, processed_count, flushed,
                 locks, existing, stepwise, log>>

\* A statement of a session fails because the store is unreachable:
\* except Exception: log, session.rollback(); the call returns.
CacheStoreFails(s) ==
  /\ \/ pc[s] = "c_check"
     \/ pc[s] = "c_store" /\ HasTranscript(transcript_data[s])
  /\ transcript_data' = [transcript_data EXCEPT ![s] = NoneData]
  /\ pc' = [pc EXCEPT ![s] = "done"]
  /\ UNCHANGED <<corpus, processed, run, videos, idx, processed_count, flushed,
                 locks, existing, cache, stepwise, log>>

NextCache ==
  \/ \E s \in CacheInsts :
       \/ Construct(s)
       \/ CacheBuildCorpus(s)
       \/ CacheCheck(s)
       \/ CacheResolve(s)
       \/ CacheStore(s)
       \/ CacheStoreFails(s)
  \/ \E s \in MixedOldInsts :
       \/ BuildCorpus(s)
       \/ SearchRaises(s)
       \/ Step(s)
       \/ StoreFails(s)

SpecCache == Init /\ [][NextCache]_vars

(***************************************************************************)
(* Properties of the shared corpus table and of scraper.py's build_corpus. *)
(***************************************************************************)

\* C4: a video whose transcript resolution ended Unavailable in one run of
\* scraper.py's build_corpus is not resolved again in a later run whose
\* candidate list contains its id.
C4_UnavailableNotRetried ==
  \A s \in CacheInsts : \A i, j \in 1..Len(log[s]) :
    (/\ i < j
     /\ log[s][i].what = "unavailable"
     /\ log[s][i].id = log[s][j].id
     /\ log[s][i].run < log[s][j].run)
      => log[s][j].what \notin Resolutions

\* C8: a video id has at most one row in youtube_transcript_corpus, and no
\* step of either pipeline changes or removes a row that is there.
C8_EntryWrittenOnce ==
  /\ \A v \in Vids : Len(corpus[v]) <= 1
  /\ [][\A v \in Vids :
          /\ Len(corpus'[v]) <= 1
          /\ corpus[v] # <<>> => corpus'[v] = corpus[v]]_vars

\* Both pipelines resolved the same id: old_scraper.py committed its entry
\* and scraper.py's insert of a second one was refused.
C8_Witness ==
  \E v \in Vids :
    /\ Len(corpus[v]) = 1 /\ corpus[v][1].by \in MixedOldInsts
    /\ \E s \in CacheInsts : \E i \in 1..Len(log[s]) :
         log[s][i].id = v /\ log[s][i].what = "conflict"

(***************************************************************************)
(* get_transcript_with_whisper, step by step, of old_scraper.py,           *)
(* scraper.py and pytube_scraper.py, with the audio file it downloads to   *)
(* downloaded_audio/<video id>.mp3.                                        *)
(***************************************************************************)

\* The programs with a get_transcript_with_whisper.
Programs == {"old_scraper", "scraper", "pytube_scraper"}

\* The programs whose function removes the file in a finally block.
RemovesInFinally == {"scraper", "pytube_scraper"}

\* The caller is inside get_transcript_with_whisper.
Running(c) == c.pc \notin {"idle", "returned"}

\* What a step of caller w makes of the files, of its call and of the
\* history: a record st = [audio, call, touched].
Here(w) == [audio |-> audio, call |-> wh[w], touched |-> touched]

\* The mark the history gets when w touches a file that another caller wrote.
Touch(st, w, how) ==
  LET f == st.audio[st.call.video]
  IN  IF f # NoFile /\ f.by # w
      THEN st.touched \cup {how}
      ELSE st.touched

\* The function returns text (None when it is empty): the finally block of
\* scraper.py and pytube_scraper.py removes the file at the path if there is
\* one; old_scraper.py has no finally block.
Finished(st, w, text) ==
  LET v == st.call.video
      removes == st.call.prog \in RemovesInFinally /\ st.audio[v] # NoFile
  IN  [audio |-> IF removes THEN [st.audio EXCEPT ![v] = NoFile] ELSE st.audio,
       call |-> [st.call EXCEPT !.pc = "returned", !.text = text],
       touched |-> IF removes THEN Touch(st, w, "deleted") ELSE st.touched]

\* A loop that lets a pass start whatever the number of passes made.
LoopedOnce(st, w) ==
  [st EXCEPT !.call.attempt = @ + 1, !.call.pc = "download", !.call.text = <<>>]

\* for attempt in range(3): the next pass, or the end of the loop and the
\* return of None.
Looped(st, w) ==
  IF st.call.attempt < WhisperAttempts
  THEN [st EXCEPT !.call.attempt = @ + 1, !.call.pc = "download",
                  !.call.text = <<>>]
  ELSE Finished(st, w, <<>>)

\* A pass did not give a text.  old_scraper.py and pytube_scraper.py: except
\* Exception: log, time.sleep(1), and the loop goes on.  scraper.py has no
\* loop: the function returns None.
Failed(st, w) ==
  LET st1 == [st EXCEPT !.call.failed = @ + 1]
  IN  IF st.call.prog = "scraper" THEN Finished(st1, w, <<>>) ELSE Looped(st1, w)

\* The step's result becomes the state.
Becomes(w, st) ==
  /\ audio' = st.audio
  /\ wh' = [wh EXCEPT ![w] = st.call]
  /\ touched' = st.touched
  /\ UNCHANGED <<corpus, processed, pc, run, videos, idx, processed_count,
                 flushed, locks, existing, transcript_data, cache, res, calls,
                 norm, search, existing_entries, log>>

\* get_transcript calls get_transcript_with_whisper(video_id).  Two
\* old_scraper.py calls are never in it for one id at a time: each holds the
\* uncommitted marker of its id.
WhisperCall(w) ==
  /\ ~ Running(wh[w])
  /\ \E prog \in Programs, v \in Vids :
       /\ prog = "old_scraper" =>
            \A x \in WhInsts \ {w} :
              ~ (Running(wh[x]) /\ wh[x].prog = "old_scraper" /\ wh[x].video = v)
       /\ Becomes(w, [Here(w) EXCEPT
                        !.call = [prog |-> prog, video |-> v, pc |-> "setup",
                                  attempt |-> 0, failed |-> 0, text |-> <<>>]])

\* YouTube(youtube_url), os.makedirs, the path: the loop's first pass starts,
\* or an exception reaches the outer handler and the function returns None
\* (pytube_scraper.py: temp_audio_path is still None, nothing is removed).
WhisperSetup(w) ==
  /\ wh[w].pc = "setup"
  /\ \/ Becomes(w, [Here(w) EXCEPT !.call.attempt = 1, !.call.pc = "download"])
     \/ Becomes(w, [Here(w) EXCEPT !.call.pc = "returned"])

\* The file the download writes at the path, over what was there.
Written(st, w, empty) ==
  [st EXCEPT !.audio[st.call.video] =
               [by |-> w, empty |-> empty],
             !.touched = Touch(st, w, "overwritten")]

\* yt.streams.filter(only_audio=True).first() and the download: the file is
\* written, with or without content, or the pass raises; pytube_scraper.py
\* returns None when there is no audio stream.
\*   A file without content: old_scraper.py logs and goes on to transcribe;
\*   scraper.py returns None; pytube_scraper.py ends the pass.
WhisperDownload(w) ==
  /\ wh[w].pc = "download"
  /\ \/ Becomes(w, [Written(Here(w), w, FALSE) EXCEPT !.call.pc = "transcribe"])
     \/ LET st == Written(Here(w), w, TRUE)
        IN  CASE wh[w].prog = "old_scraper" ->
                   Becomes(w, [st EXCEPT !.call.pc = "transcribe"])
              [] wh[w].prog = "scraper" -> Becomes(w, Finished(st, w, <<>>))
              [] OTHER -> Becomes(w, Failed(st, w))
     \/ Becomes(w, Failed(Here(w), w))
     \/ /\ wh[w].prog = "pytube_scraper"
        /\ Becomes(w, Finished(Here(w), w, <<>>))

\* model.transcribe(temp_audio_path) reads the file at the path: it raises
\* when there is none or it has no content, and otherwise gives a text or
\* raises.  old_scraper.py goes on to os.remove; the others return the
\* cleaned text.
WhisperTranscribe(w) ==
  /\ wh[w].pc = "transcribe"
  /\ LET f == audio[wh[w].video]
     IN  \/ Becomes(w, Failed(Here(w), w))
         \/ /\ f # NoFile /\ ~ f.empty
            /\ \E raw \in RawTexts :
                 LET st == [Here(w) EXCEPT !.touched = Touch(Here(w), w, "read")]
                 IN  IF wh[w].prog = "old_scraper"
                     THEN Becomes(w, [st EXCEPT !.call.pc = "remove",
                                                !.call.text = Cleaned[raw]])
                     ELSE Becomes(w, Finished(st, w, Cleaned[raw]))

\* old_scraper.py: os.remove(temp_audio_path) and return
\* self.clean_transcript(transcript_text); os.remove raises when the file is
\* gone, and the pass has failed.
WhisperRemove(w) ==
  /\ wh[w].pc = "remove"
  /\ LET v == wh[w].video
     IN  IF audio[v] = NoFile
         THEN Becomes(w, Failed(Here(w), w))
         ELSE Becomes(w, Finished([Here(w) EXCEPT
                                     !.audio[v] = NoFile,
                                     !.touched = Touch(Here(w), w, "deleted")],
                                  w, wh[w].text))

NextWhisper ==
  \E w \in WhInsts :
    \/ WhisperCall(w)
    \/ WhisperSetup(w)
    \/ WhisperDownload(w)
    \/ WhisperTranscribe(w)
    \/ WhisperRemove(w)

SpecWhisper == Init /\ [][NextWhisper]_vars

(***************************************************************************)
(* Properties of get_transcript's tiers and of the local transcription.    *)
(***************************************************************************)

\* C11: when the native or a generated caption gives a text that
\* clean_transcript rejects, get_transcript returns None and makes no later
\* request; the local transcription is not started after it.
C11_RejectionEndsCall ==
  \A i \in 1..Len(calls) :
    (/\ calls[i].at \in {"native", "tracks"}
     /\ calls[i].kind = "text"
     /\ clean_transcript(calls[i].raw) = <<>>)
      => /\ i = Len(calls)
         /\ res.at = "done"
         /\ res.data = NoneData

\* The programs whose get_transcript_with_whisper has the loop of passes.
Retrying == {"old_scraper", "pytube_scraper"}

\* C12: get_transcript_with_whisper makes at most 3 passes per call; every
\* pass before the current one has failed, so none follows a pass that gave
\* a text; and a call whose last pass failed returns None after exactly 3.
C12_AtMostThreeAttempts ==
  \A w \in WhInsts :
    LET c == wh[w]
    IN  c.prog \in Retrying =>
          /\ c.attempt <= WhisperAttempts
          /\ c.pc \in {"download", "transcribe", "remove"} => c.failed = c.attempt - 1
          /\ (c.pc = "returned" /\ c.text # <<>>) => c.failed = c.attempt - 1
          /\ (c.pc = "returned" /\ c.attempt > 0 /\ c.failed = c.attempt) =>
               /\ c.attempt = WhisperAttempts
               /\ c.text = <<>>

\* One call returned None after three failed passes, another returned the
\* text of its second pass.
C12_Witness ==
  /\ wh["W1"].prog = "old_scraper" /\ wh["W1"].pc = "returned"
  /\ wh["W1"].failed = WhisperAttempts
  /\ wh["W2"].prog = "pytube_scraper" /\ wh["W2"].pc = "returned"
  /\ wh["W2"].attempt = 2 /\ wh["W2"].text # <<>>

\* C13: once get_transcript_with_whisper has returned, the audio file the
\* call downloaded is not there any more.
C13_NoFileAfterReturn ==
  \A w \in WhInsts :
    wh[w].pc = "returned" => audio[wh[w].video].by # w

\* C14: no caller reads, overwrites or deletes an audio file that another
\* caller wrote.
C14_FileNeverShared == touched = {}

(***************************************************************************)
(* Properties of build_corpus: failures, conflicts and the entry written.  *)
(***************************************************************************)

\* C15: an exception raised while the entry of one candidate is committed
\* does not end the batch: build_corpus goes on to the next candidate.
C15_CommitFailureAbsorbed ==
  [][\A s \in OldInsts :
       (pc[s] = "store" /\ HasTranscript(transcript_data[s]))
         => pc'[s] \in {"store", "sleep", LoopPc(s, idx[s] + 1)}]_vars

\* C16: when search_videos has raised, build_corpus raises to its caller
\* and does not go on as if the search had returned its results.
C16_SearchFailureRaised ==
  [][\A s \in OldInsts :
       (pc[s] = "search_failed" /\ pc'[s] # "search_failed")
         => pc'[s] = "raised"]_vars

\* What the call has committed for the candidates whose iteration has ended
\* is in the store.
ProgressKept(s) ==
  \A i \in 1..Len(log[s]) :
    LET v == videos[s][i]
    IN  /\ log[s][i] \in {"committed", "unavailable"} =>
             \E j \in 1..Len(processed[v]) : processed[v][j].by = s
        /\ log[s][i] = "committed" =>
             \E j \in 1..Len(corpus[v]) : corpus[v][j].by = s

\* C17: when an exception of the store ends old_scraper.py's build_corpus
\* part-way, the step that raises changes neither table, and every entry
\* and marker the call committed for earlier candidates is still there.
C17_AbortKeepsProgress ==
  /\ [] (\A s \in OldInsts : ProgressKept(s))
  /\ [][\A s \in OldInsts :
          (pc[s] # "raised" /\ pc'[s] = "raised")
            => corpus' = corpus /\ processed' = processed]_vars

\* A call committed the entry of its first candidate and was ended by the
\* store at its second.
C17_Witness ==
  \E s \in OldInsts :
    /\ pc[s] = "raised" /\ idx[s] = 2
    /\ log[s] = <<"committed">> /\ Len(videos[s]) = 2

\* C18: the step that answers an IntegrityError leaves both tables and the
\* processed count as they were, leaves nothing flushed in the session,
\* raises nothing and goes on to the next candidate.
C18_ConflictIsSkipped ==
  [][\A s \in OldInsts :
       (log'[s] = Append(log[s], "conflict"))
         => /\ corpus' = corpus /\ processed' = processed
            /\ flushed'[s] = {}
            /\ processed_count'[s] = processed_count[s]
            /\ idx'[s] = idx[s] + 1
            /\ pc'[s] = LoopPc(s, idx[s] + 1)]_vars

\* A call's entry insert for v1 ran into the unique index after its marker
\* was flushed: no marker of v1 is in the store, and the call committed its
\* next candidate.
C18_Witness ==
  \E s \in OldInsts :
    /\ videos[s] = <<"v1", "v2">>
    /\ log[s] = <<"conflict", "committed">>
    /\ processed_count[s] = 1
    /\ processed["v1"] = <<>>
    /\ \E j \in 1..Len(corpus["v2"]) : corpus["v2"][j].by = s

\* What get_transcript returns when the native caption gives the text raw.
NativeData(raw) == ResolverStep(ResolverInit, Answer("text", raw)).data

\* C19: from a store without marker and entry for v, a call whose candidates
\* are exactly [v] and whose native caption gave an accepted text commits one
\* entry for v, with has_caption true, and counts 1.
C19_NativeEntryCommitted ==
  [][\A s \in OldInsts : \A raw \in RawTexts :
       (/\ pc[s] = "store" /\ pc'[s] \notin {"store", "raised"}
        /\ Len(videos[s]) = 1
        /\ Fresh(video_id(s))
        /\ clean_transcript(raw) # <<>>
        /\ transcript_data[s] = NativeData(raw))
         => /\ corpus'[video_id(s)] =
                 <<[transcript_text |-> clean_transcript(raw),
                    has_caption |-> TRUE, by |-> s]>>
            /\ Len(processed'[video_id(s)]) = 1
            /\ processed_count'[s] = 1
            /\ log'[s] = <<"committed">>]_vars

\* The call with the one candidate v2 has returned, with v2's entry written.
C19_Witness ==
  /\ pc["A"] = "done" /\ videos["A"] = <<"v2">> /\ processed_count["A"] = 1
  /\ corpus["v2"] = <<[transcript_text |-> clean_transcript(TextA),
                       has_caption |-> TRUE, by |-> "A"]>>

\* C20: the dictionary get_transcript returns, whose flag build_corpus
\* writes to the entry, has has_caption false exactly when its text came
\* from the local transcription, and true when it came from the native or a
\* generated caption.
C20_CaptionFlagTellsTier ==
  (res.at = "done" /\ res.data # NoneData) =>
    /\ calls # <<>>
    /\ res.data.has_caption = FALSE <=> calls[Len(calls)].at = "whisper"
    /\ res.data.has_caption = TRUE <=> calls[Len(calls)].at \in {"native", "tracks"}

\* The call returned the text of the local transcription, after the list of
\* the generated captions failed.
C20_Witness ==
  /\ res.at = "done" /\ res.data # NoneData /\ ~ res.data.has_caption
  /\ Len(calls) = 3 /\ calls[2].at = "generated" /\ calls[2].kind = "error"


(***************************************************************************)
(* clean_transcript as a function of its text (old_scraper.py 166-190,     *)
(* scraper.py 96-114, pytube_scraper.py 150-172).                          *)
(***************************************************************************)

\* The most filler words of an input text.
MaxWords == 11

\* The words of the input texts: a filler, an indicator word in lower case and
\* with capitals, and a longer word that holds an indicator word as a fragment.
Filler == <<"b">>
WordIni == <<"i", "n", "i">>
WordCapital == <<"I", "n", "I">>
WordMini == <<"m", "i", "n", "i">>
SpecialWords == {<<>>, WordIni, WordCapital, WordMini}

\* A timestamp line.
StampLine == <<"1", ":", "2", ":", "3", "\n">>

Separators == {<<" ">>, <<" ", "\n">>, <<"\t", " ">>}

\* n filler words, each one followed by sep.
RECURSIVE Fillers(_, _)
Fillers(n, sep) == IF n = 0 THEN <<>> ELSE Filler \o sep \o Fillers(n - 1, sep)

\* A raw text: an optional special word, n filler words and an optional
\* timestamp line before the first word (where = 1), after the special word
\* (where = 2) or nowhere (where = 0).
InputText(n, special, sep, where) ==
  (IF where = 1 THEN StampLine ELSE <<>>)
    \o (IF special = <<>> THEN <<>> ELSE special \o sep)
    \o (IF where = 2 THEN StampLine ELSE <<>>)
    \o Fillers(n, sep)

InputTexts ==
  { InputText(n, special, sep, where) :
      n \in 0..MaxWords, special \in SpecialWords, sep \in Separators,
      where \in 0..2 }

\* The state before a call of clean_transcript on one of the input texts; the
\* store is empty and every instance is idle.
InitNormalizer ==
  /\ corpus = [v \in Vids |-> <<>>]
  /\ cached_video_ids = [s \in Insts |-> {}]
  /\ cached_transcripts = [s \in Insts |-> {}]
  /\ processed = [v \in Vids |-> <<>>]
  /\ InitLocal
  /\ res = ResolverInit
  /\ calls = <<>>
  /\ audio = [v \in Vids |-> NoFile]
  /\ wh = [w \in WhInsts |-> IdleCall]
  /\ touched = {}
  /\ search = NoSearch
  /\ existing_entries = {}
  /\ norm \in {[text |-> t, pc |-> "called", result |-> <<>>, again |-> <<>>] :
               t \in InputTexts}

\* clean_transcript runs to its return.
CleanTranscript ==
  /\ norm.pc = "called"
  /\ norm' = [norm EXCEPT !.pc = "returned",
                           !.result = clean_transcript(norm.text)]
  /\ UNCHANGED <<corpus, processed, pc, run, videos, idx, processed_count,
                 flushed, locks, existing, transcript_data, cache, res, calls,
                 whisper, search, existing_entries, log>>

\* clean_transcript is called on the text it returned, and runs to its return.
CleanTranscriptAgain ==
  /\ norm.pc = "returned"
  /\ norm' = [norm EXCEPT !.pc = "returned_again",
                           !.again = clean_transcript(norm.result)]
  /\ UNCHANGED <<corpus, processed, pc, run, videos, idx, processed_count,
                 flushed, locks, existing, transcript_data, cache, res, calls,
                 whisper, search, existing_entries, log>>

NextNormalizer == CleanTranscript \/ CleanTranscriptAgain

SpecNormalizer == InitNormalizer /\ [][NextNormalizer]_vars

\* The text after the timestamp lines are removed, the blanks collapsed and
\* the ends stripped (lines 174-175), before the two checks.
CleanedText(t) == Strip(CollapseSpace(StripTimestamps(t, 1), 1))

\* C21: A text that has fewer than 10 whitespace-delimited tokens after the
\* cleaning is rejected: clean_transcript returns the empty text, whatever
\* indicator words the text holds.
C21_ShortTextRejected ==
  (norm.pc = "returned" /\ TokenCount(CleanedText(norm.text)) < MinTokens)
    => norm.result = <<>>

\* A text of ten raw tokens, one of them the indicator word "ini" and one a
\* timestamp, is left with nine tokens and is rejected.
C21_Witness ==
  /\ norm.pc = "returned"
  /\ TokenCount(norm.text) = MinTokens
  /\ TokenCount(CleanedText(norm.text)) = MinTokens - 1
  /\ Contains(Lower(CleanedText(norm.text)), WordIni)
  /\ norm.result = <<>>

\* The whitespace-delimited words of a text.
Words(t) ==
  LET NonSpace == {t[k] : k \in 1..Len(t)} \ Space
  IN  { SubSeq(t, i, i + RunLen(t, i, NonSpace) - 1) :
          i \in {k \in 1..Len(t) :
                   t[k] \notin Space /\ (k = 1 \/ t[k - 1] \in Space)} }

\* C22: A text none of whose whitespace-delimited words is an indicator word is
\* rejected whatever its length, also when an indicator word occurs only as a
\* fragment of a longer word.
C22_NoIndicatorWordRejected ==
  (norm.pc = "returned"
     /\ Words(Lower(CleanedText(norm.text))) \cap indonesian_indicators = {})
    => norm.result = <<>>


(***************************************************************************)
(* Properties of the runs: duplicate texts, concurrent instances, order.   *)
(***************************************************************************)

\* The texts of the rows the table holds for ids other than v.
OtherTexts(v) ==
  UNION {{corpus[w][i].transcript_text : i \in 1..Len(corpus[w])} :
           w \in Vids \ {v}}

\* C23: a scraper.py run never commits an entry whose transcript text equals
\* the text of an entry that is in the table already, be it from before the
\* run or from the run itself, whichever tier produced the text.
C23_NoDuplicateTextCommitted ==
  [][\A s \in CacheInsts, v \in Vids :
       (Len(corpus'[v]) > Len(corpus[v]) /\ pc[s] = "c_store" /\ video_id(s) = v
          /\ pc'[s] # pc[s])
         => transcript_data[s].transcript_text \notin OtherTexts(v)]_vars


\* Two scraper.py instances run against the same store.
NextPair ==
  \E s \in PairInsts :
    \/ Construct(s)
    \/ CacheBuildCorpus(s)
    \/ CacheCheck(s)
    \/ CacheResolve(s)
    \/ CacheStore(s)
    \/ CacheStoreFails(s)

SpecPair == Init /\ [][NextPair]_vars

\* The instance has passed the checks of get_transcript for its candidate
\* and runs the tiers.
InTiers(s) == pc[s] = "c_resolve"

\* C24: two scraper.py instances that run side by side never run the
\* transcript tiers for the same video id, both of them.
C24_TiersRunOnce ==
  \A s \in PairInsts, t \in PairInsts :
    (s # t /\ InTiers(s) /\ InTiers(t)) => video_id(s) # video_id(t)


\* The requests of the call that fetched the text of a generated track.
TrackFetches ==
  {i \in 1..Len(calls) : calls[i].at = "tracks" /\ calls[i].kind \in {"text", "error"}}

\* C25: the generated-caption tier fetches at most one track per call, the
\* first generated one of the list; it never fetches a second generated track.
C25_OneTrackFetched == Cardinality(TrackFetches) <= 1


\* Where build_corpus works on the candidate at idx: its claim, its
\* transcript or its entry.
Processing == {"check_corpus", "check_processed", "decide", "resolve", "store"}

\* C26: within one build_corpus call the candidates are taken in the order of
\* the list search_videos returned, one after the other: the list stays as it
\* is, the loop goes from position i to i + 1 only when candidate i has ended
\* in a commit, a skip or a rollback, and the work on a candidate starts only
\* when every earlier candidate has ended.
C26_CandidatesInOrder ==
  [][\A s \in OldInsts :
       /\ pc[s] \notin {"idle", "search_failed"} =>
            /\ videos'[s] = videos[s]
            /\ idx'[s] # idx[s] =>
                 /\ idx'[s] = idx[s] + 1
                 /\ Len(log'[s]) = idx[s]
                 /\ log'[s][idx[s]] \in
                      {"committed", "unavailable", "already", "conflict"}
       /\ pc'[s] \in Processing =>
            /\ idx'[s] \in 1..Len(videos'[s])
            /\ Len(log'[s]) = idx'[s] - 1]_vars

\* A call works on its second candidate after the first has been committed.
C26_Witness ==
  \E s \in OldInsts :
    /\ pc[s] = "resolve"
    /\ idx[s] = 2
    /\ log[s] = <<"committed">>
    /\ videos[s] = <<"v1", "v2">>


\* C27: old_scraper.py's build_corpus runs the pacing delay between every two
\* successive candidates: the loop goes on to the next candidate only from
\* time.sleep(1), also after a candidate that was skipped as processed already
\* and after one that ended in a uniqueness conflict.
C27_DelayBetweenCandidates ==
  [][\A s \in OldInsts :
       (idx'[s] = idx[s] + 1 /\ idx[s] < Len(videos[s]))
         => pc[s] = "sleep"]_vars


(***************************************************************************)
(* search_videos as a function of the page the video source answers with   *)
(* and of max_results (old_scraper.py 77-163, scraper.py 116-177,          *)
(* youtube_search.py 71-112, pytube_scraper.py 59-147).                    *)
(***************************************************************************)

\* The most items of a page of the video source, and the largest max_results.
MaxPage == 3
MaxResults == 3

\* videos[:n] for n >= 0.
Take(found, n) == SubSeq(found, 1, IF n < Len(found) THEN n ELSE Len(found))

\* old_scraper.py, max_results <= 50: every item of the response is appended,
\* and videos[:max_results] is returned.
OldSearchVideos(page, max_results) == Take(page, max_results)

\* youtube_search.search_youtube: the items are appended one by one and the
\* list is returned as soon as it has max_results items or more; the test
\* comes after the append.
RECURSIVE SearchYoutube(_, _, _)
SearchYoutube(items, rest, max_results) ==
  IF rest = <<>> THEN items
  ELSE LET more == Append(items, Head(rest))
       IN  IF Len(more) >= max_results THEN more
           ELSE SearchYoutube(more, Tail(rest), max_results)

\* scraper.py: the loop over the items; an item whose id is neither cached nor
\* seen is appended, and the loop ends when videos has max_results items or
\* more; the test comes after the append.
RECURSIVE SearchLoop(_, _, _, _)
SearchLoop(found, items, cached, max_results) ==
  IF items = <<>> THEN found
  ELSE IF Head(items) \notin cached
         /\ \A i \in 1..Len(found) : found[i] # Head(items)
       THEN LET more == Append(found, Head(items))
            IN  IF Len(more) >= max_results THEN more
                ELSE SearchLoop(more, Tail(items), cached, max_results)
       ELSE SearchLoop(found, Tail(items), cached, max_results)

CacheSearchVideos(page, cached, max_results) ==
  SearchLoop(<<>>, SearchYoutube(<<>>, page, max_results), cached, max_results)

\* pytube_scraper.py, one page of results: the loop over the page ends before
\* the append when videos has max_results items, and videos[:max_results] is
\* returned.
RECURSIVE PytubeLoop(_, _, _)
PytubeLoop(found, results, max_results) ==
  IF results = <<>> \/ Len(found) >= max_results THEN found
  ELSE PytubeLoop(Append(found, Head(results)), Tail(results), max_results)

PytubeSearchVideos(page, max_results) ==
  Take(IF 0 < max_results THEN PytubeLoop(<<>>, page, max_results) ELSE <<>>,
       max_results)

\* The state before a call of search_videos of one of the programs; the store
\* is empty and every instance is idle.
InitSearch ==
  /\ corpus = [v \in Vids |-> <<>>]
  /\ cached_video_ids = [s \in Insts |-> {}]
  /\ cached_transcripts = [s \in Insts |-> {}]
  /\ processed = [v \in Vids |-> <<>>]
  /\ InitLocal
  /\ res = ResolverInit
  /\ calls = <<>>
  /\ audio = [v \in Vids |-> NoFile]
  /\ wh = [w \in WhInsts |-> IdleCall]
  /\ touched = {}
  /\ norm = NoCall
  /\ existing_entries = {}
  /\ search \in
       {[program |-> p, page |-> q, cached |-> c, max_results |-> m,
         pc |-> "called", result |-> <<>>, requests |-> 0] :
          p \in Programs, q \in SeqsUpTo(MaxPage), m \in 0..MaxResults,
          c \in {{}, {"v1"}}}

\* search_videos runs to its return.
SearchVideosCall ==
  /\ search.pc = "called"
  /\ search' =
       [search EXCEPT
          !.pc = "returned",
          !.result =
             CASE search.program = "old_scraper" ->
                    OldSearchVideos(search.page, search.max_results)
               [] search.program = "scraper" ->
                    CacheSearchVideos(search.page, search.cached,
                                      search.max_results)
               [] OTHER ->
                    PytubeSearchVideos(search.page, search.max_results)]
  /\ UNCHANGED <<corpus, processed, pc, run, videos, idx, processed_count,
                 flushed, locks, existing, transcript_data, cache, res, calls,
                 whisper, norm, existing_entries, log>>

SpecSearch == InitSearch /\ [][SearchVideosCall]_vars

\* C28: search_videos returns at most max_results candidates, for every
\* max_results >= 0.
C28_AtMostMaxResults ==
  search.pc = "returned" => Len(search.result) <= search.max_results


\* The rows of youtube_transcript_corpus that instance s committed.
RowsBy(s) ==
  UNION {{<<v, i>> : i \in {k \in 1..Len(corpus[v]) : corpus[v][k].by = s}} :
           v \in Vids}

\* C29: the count old_scraper.py's build_corpus returns is the number of
\* entries the call committed: processed_count goes up by one with the commit
\* of an entry and with nothing else, so it never counts a skipped, an
\* unavailable or a conflicting video.
C29_CountIsCommittedEntries ==
  \A s \in OldInsts :
    /\ processed_count[s] = Cardinality(RowsBy(s))
    /\ pc[s] = "done" => processed_count[s] = CommitCount(log[s])

\* A call returns 1 after two candidates: one committed, one not.
C29_Witness ==
  \E s \in OldInsts :
    /\ pc[s] = "done"
    /\ processed_count[s] = 1
    /\ Len(log[s]) = 2
    /\ \E i \in 1..2 : log[s][i] \in {"already", "unavailable", "conflict"}


\* The tables were empty before the first build_corpus call.
FromEmptyTables == \A v \in Vids : ~ Seeded(v)

\* C30: through old_scraper.py's build_corpus calls alone, from empty tables,
\* every video id that has an entry has a processed marker too, and the two
\* become visible in the same commit: the step that adds the entry of an id
\* adds its marker, written by the same call.
C30_EntryHasMarker ==
  /\ [](FromEmptyTables => \A v \in Vids : Has(corpus, v) => Has(processed, v))
  /\ [][FromEmptyTables =>
          \A v \in Vids :
            Len(corpus'[v]) > Len(corpus[v]) =>
              /\ processed[v] = <<>>
              /\ Len(processed'[v]) = 1
              /\ processed'[v][1].by = corpus'[v][Len(corpus'[v])].by]_vars

\* From empty tables a call has committed an entry and its marker for one
\* candidate and the marker alone for another.
C30_Witness ==
  /\ FromEmptyTables
  /\ \E s \in OldInsts, v \in Vids, w \in Vids :
       /\ v # w
       /\ Has(corpus, v) /\ Has(processed, v)
       /\ corpus[v][1].by = s /\ processed[v][1].by = s
       /\ ~ Has(corpus, w) /\ Has(processed, w)


(***************************************************************************)
(* Properties of the sessions, of the caches and of termination.           *)
(***************************************************************************)

\* The session of s holds no uncommitted change and no row lock.
SessionClean(s) == flushed[s] = {} /\ locks[s] = {}

\* C31: at the start of every iteration of old_scraper.py's loop, and when
\* the loop has ended, the session holds no uncommitted change: the iteration
\* before ended in a commit or a rollback, and what the call committed for the
\* earlier candidates is in the tables.
C31_IterationStartsClean ==
  \A s \in OldInsts :
    pc[s] \in {"check_corpus", "sleep", "done"}
      => SessionClean(s) /\ ProgressKept(s)

\* A call starts its second iteration after it skipped its first candidate,
\* whose row it had locked.
C31_Witness ==
  \E s \in OldInsts :
    /\ pc[s] = "check_corpus"
    /\ idx[s] = 2
    /\ log[s] = <<"already">>
    /\ SessionClean(s)


(***************************************************************************)
(* pytube_scraper.py: build_corpus (lines 289-359).                        *)
(***************************************************************************)

\* existing_entries = {entry.id: entry.transcript_text for entry in ...all()}
Snapshot(table) ==
  UNION {{<<v, table[v][i].transcript_text>> : i \in 1..Len(table[v])} :
           v \in Vids}

\* The keys and the values of existing_entries.
SnapshotIds == {e[1] : e \in existing_entries}
SnapshotTexts == {e[2] : e \in existing_entries}

\* The for loop's next step in pytube_scraper.py's build_corpus.
PytubeLoopPc(vs, i) == IF i <= Len(vs) THEN "y_check" ELSE "done"

\* One line of the history of a pytube_scraper.py call.
PytubeEntry(s, what) == [id |-> video_id(s), what |-> what]

\* build_corpus is called: a new session, the snapshot of the table,
\* search_videos, processed_count = 0.
PytubeBuildCorpus(s) ==
  /\ pc[s] = "idle"
  /\ existing_entries' = Snapshot(corpus)
  /\ \E vs \in CandidateLists :
       /\ videos' = [videos EXCEPT ![s] = vs]
       /\ pc' = [pc EXCEPT ![s] = PytubeLoopPc(vs, 1)]
  /\ idx' = [idx EXCEPT ![s] = 1]
  /\ processed_count' = [processed_count EXCEPT ![s] = 0]
  /\ log' = [log EXCEPT ![s] = <<>>]
  /\ UNCHANGED <<corpus, processed, run, flushed, locks, existing,
                 transcript_data, cache, res, calls, whisper, norm, search>>

\* if video_id in existing_entries: continue
PytubeCheck(s) ==
  /\ pc[s] = "y_check"
  /\ IF video_id(s) \in SnapshotIds
     THEN /\ log' = [log EXCEPT ![s] = Append(@, PytubeEntry(s, "skipped"))]
          /\ idx' = [idx EXCEPT ![s] = @ + 1]
          /\ pc' = [pc EXCEPT ![s] = PytubeLoopPc(videos[s], idx[s] + 1)]
     ELSE /\ pc' = [pc EXCEPT ![s] = "y_resolve"]
          /\ UNCHANGED <<log, idx>>
  /\ UNCHANGED <<corpus, processed, run, videos, processed_count, flushed,
                 locks, existing, transcript_data, cache, stepwise>>

\* transcript_data = self.get_transcript(video_id)
PytubeGetTranscript(s) ==
  /\ pc[s] = "y_resolve"
  /\ \E data \in GetTranscriptReturns :
       transcript_data' = [transcript_data EXCEPT ![s] = data]
  /\ log' = [log EXCEPT ![s] = Append(@, PytubeEntry(s, "get_transcript"))]
  /\ pc' = [pc EXCEPT ![s] = "y_store"]
  /\ UNCHANGED <<corpus, processed, run, videos, idx, processed_count, flushed,
                 locks, existing, cache, stepwise>>

\* The test against the texts of existing_entries; session.add(corpus_entry);
\* session.commit(); processed_count += 1, or the IntegrityError handler's
\* rollback; then time.sleep(1) and the loop's next step.  A duplicate text
\* goes on to the next candidate at once.
PytubeStore(s) ==
  /\ pc[s] = "y_store"
  /\ IF HasTranscript(transcript_data[s])
     THEN IF transcript_data[s].transcript_text \in SnapshotTexts
          THEN /\ log' = [log EXCEPT ![s] = Append(@, PytubeEntry(s, "duplicate"))]
               /\ UNCHANGED <<corpus, processed_count>>
          ELSE IF CorpusConflict(video_id(s))
          THEN /\ log' = [log EXCEPT ![s] = Append(@, PytubeEntry(s, "conflict"))]
               /\ UNCHANGED <<corpus, processed_count>>
          ELSE /\ corpus' = [corpus EXCEPT ![video_id(s)] = Append(@, CorpusRow(s))]
               /\ processed_count' = [processed_count EXCEPT ![s] = Counted(@)]
               /\ log' = [log EXCEPT ![s] = Append(@, PytubeEntry(s, "committed"))]
     ELSE /\ log' = [log EXCEPT ![s] = Append(@, PytubeEntry(s, "unavailable"))]
          /\ UNCHANGED <<corpus, processed_count>>
  /\ transcript_data' = [transcript_data EXCEPT ![s] = NoneData]
  /\ idx' = [idx EXCEPT ![s] = @ + 1]
  /\ pc' = [pc EXCEPT ![s] = PytubeLoopPc(videos[s], idx[s] + 1)]
  /\ UNCHANGED <<processed, run, videos, flushed, locks, existing, cache,
                 stepwise>>

\* The commit raises an exception that is not an IntegrityError:
\* except Exception: log, session.rollback(); the call returns its count.
PytubeStoreFails(s) ==
  /\ pc[s] = "y_store"
  /\ HasTranscript(transcript_data[s])
  /\ transcript_data' = [transcript_data EXCEPT ![s] = NoneData]
  /\ pc' = [pc EXCEPT ![s] = "done"]
  /\ UNCHANGED <<corpus, processed, run, videos, idx, processed_count, flushed,
                 locks, existing, cache, stepwise, log>>

NextPytube ==
  \E s \in PytubeInsts :
    \/ PytubeBuildCorpus(s)
    \/ PytubeCheck(s)
    \/ PytubeGetTranscript(s)
    \/ PytubeStore(s)
    \/ PytubeStoreFails(s)

SpecPytube == Init /\ [][NextPytube]_vars

\* The get_transcript invocations of a call for video id v.
TranscriptCalls(s, v) ==
  {i \in 1..Len(log[s]) : log[s][i] = [id |-> v, what |-> "get_transcript"]}

\* C32: within one pytube_scraper.py build_corpus call get_transcript is
\* invoked at most once for each video id, also when search_videos returned
\* the id twice or the call has committed the id's entry before.
C32_OneTranscriptCallPerId ==
  \A s \in PytubeInsts, v \in Vids : Cardinality(TranscriptCalls(s, v)) <= 1


\* C33: for a scraper.py instance, after any sequence of build_corpus calls,
\* every id of cached_video_ids has an entry in the table and every text of
\* cached_transcripts is the text of an entry of the table; a step of the
\* instance that adds no entry to the table adds no text to the cache, and
\* adds an id only when the table has an entry with it.
C33_CacheWithinStore ==
  /\ [](\A s \in CacheInsts :
          /\ cached_video_ids[s] \subseteq LoadedIds(corpus)
          /\ cached_transcripts[s] \subseteq LoadedTranscripts(corpus))
  /\ [][\A s \in CacheInsts :
          (pc[s] = "c_store" /\ corpus' = corpus)
            => /\ cached_video_ids'[s] = cached_video_ids[s]
               /\ cached_transcripts'[s] = cached_transcripts[s]]_vars

\* The instance has its own entry in the cache and has met a conflict on an
\* id that is not in its cache.
C33_Witness ==
  \E s \in CacheInsts, v \in Vids, w \in Vids :
    /\ \E i \in 1..Len(log[s]) : log[s][i].id = v /\ log[s][i].what = "conflict"
    /\ v \notin cached_video_ids[s]
    /\ w \in cached_video_ids[s]
    /\ \E i \in 1..Len(corpus[w]) :
         /\ corpus[w][i].by = s
         /\ corpus[w][i].transcript_text \in cached_transcripts[s]


\* C34: clean_transcript is idempotent: called on the text it returned, it
\* returns that text again; an accepted text comes back unchanged and a
\* rejected one stays rejected.
C34_CleanIsIdempotent ==
  norm.pc = "returned_again" => norm.again = norm.result

\* A text with a timestamp line and runs of blanks was accepted in a form
\* that differs from the raw text, and was returned unchanged the second time.
C34_Witness ==
  /\ norm.pc = "returned_again"
  /\ norm.result # <<>>
  /\ norm.result # norm.text
  /\ Len(norm.result) < Len(norm.text) - Len(StampLine)
  /\ norm.again = norm.result


(***************************************************************************)
(* One old_scraper.py build_corpus call with its loops step by step: the   *)
(* requests of search_videos (lines 90-163), the tiers and the attempts of *)
(* get_transcript (192-301) and the loop over the candidates (322-373).    *)
(***************************************************************************)

\* items_per_request, scaled down with max_results.
ItemsPerRequest == 1

\* required_requests = (max_results + items_per_request - 1) // items_per_request
RequiredRequests(m) == (m + ItemsPerRequest - 1) \div ItemsPerRequest

\* A counter of requests that starts over after its second pass.
RequestStartingOver(n) == (n + 1) % 2

\* for _ in range(required_requests): the passes made after one more.
NextRequest(n) == n + 1

\* What the video source answers to one request.
Responses == SeqsUpTo(ItemsPerRequest)

\* build_corpus is called and calls search_videos: videos = [], and the
\* branch for max_results.
PagedSearchBegin(s) ==
  /\ pc[s] = "idle"
  /\ search.pc = "none"
  /\ \E m \in 0..MaxResults :
       search' = [NoSearch EXCEPT
                    !.program = "old_scraper", !.max_results = m,
                    !.pc = IF m <= ItemsPerRequest THEN "single" ELSE "paging"]
  /\ UNCHANGED <<corpus, processed, pc, run, videos, idx, processed_count,
                 flushed, locks, existing, transcript_data, cache, res, calls,
                 whisper, norm, existing_entries, log>>

\* max_results <= items_per_request: the one request, whose items are
\* appended, or whose exception the handler logs.
SingleSearchRequest(s) ==
  /\ pc[s] = "idle"
  /\ search.pc = "single"
  /\ \E items \in Responses, raised \in BOOLEAN :
       search' = [search EXCEPT
                    !.pc = "collected",
                    !.requests = NextRequest(@),
                    !.result = IF raised THEN @ ELSE @ \o items]
  /\ UNCHANGED <<corpus, processed, pc, run, videos, idx, processed_count,
                 flushed, locks, existing, transcript_data, cache, res, calls,
                 whisper, norm, existing_entries, log>>

\* One pass of for _ in range(required_requests): the loop ends when the
\* range is used up or nothing remains to fetch; else the request is made,
\* its items are appended, and the loop ends when there is no next page
\* token; an exception of the request ends the loop in the handler.
PagedSearchRequest(s) ==
  /\ pc[s] = "idle"
  /\ search.pc = "paging"
  /\ IF \/ search.requests >= RequiredRequests(search.max_results)
        \/ search.max_results - Len(search.result) <= 0
     THEN search' = [search EXCEPT !.pc = "collected"]
     ELSE \E items \in Responses, token \in BOOLEAN, raised \in BOOLEAN :
            search' =
              IF raised THEN [search EXCEPT !.pc = "collected"]
              ELSE [search EXCEPT
                      !.result = @ \o items,
                      !.requests = NextRequest(@),
                      !.pc = IF token THEN "paging" ELSE "collected"]
  /\ UNCHANGED <<corpus, processed, pc, run, videos, idx, processed_count,
                 flushed, locks, existing, transcript_data, cache, res, calls,
                 whisper, norm, existing_entries, log>>

\* return videos[:max_results], and build_corpus starts its loop.
PagedSearchReturn(s) ==
  /\ pc[s] = "idle"
  /\ search.pc = "collected"
  /\ LET vs == Take(search.result, search.max_results)
     IN  /\ videos' = [videos EXCEPT ![s] = vs]
         /\ pc' = [pc EXCEPT ![s] = IF 1 <= Len(vs) THEN "check_corpus" ELSE "done"]
  /\ search' = [search EXCEPT !.pc = "returned"]
  /\ idx' = [idx EXCEPT ![s] = 1]
  /\ processed_count' = [processed_count EXCEPT ![s] = 0]
  /\ log' = [log EXCEPT ![s] = <<>>]
  /\ UNCHANGED <<corpus, processed, run, flushed, locks, existing,
                 transcript_data, cache, res, calls, whisper, norm,
                 existing_entries>>

\* One step of get_transcript for the candidate: a request of a tier or an
\* attempt of the local transcription.
ResolveStep(s) ==
  /\ pc[s] = "resolve"
  /\ res.at # "done"
  /\ \E a \in Answers(res) :
       /\ res' = ResolverStep(res, a)
       /\ calls' = Append(calls, [at |-> res.at, kind |-> a.kind, raw |-> a.raw])
  /\ UNCHANGED <<corpus, processed, pc, run, videos, idx, processed_count,
                 flushed, locks, existing, transcript_data, cache, whisper,
                 norm, search, existing_entries, log>>

\* get_transcript returns to build_corpus.
ResolveEnd(s) ==
  /\ pc[s] = "resolve"
  /\ res.at = "done"
  /\ transcript_data' = [transcript_data EXCEPT ![s] = res.data]
  /\ res' = ResolverInit
  /\ calls' = <<>>
  /\ pc' = [pc EXCEPT ![s] = "store"]
  /\ UNCHANGED <<corpus, processed, run, videos, idx, processed_count, flushed,
                 locks, existing, cache, whisper, norm, search,
                 existing_entries, log>>

\* The steps of the call that end once the store and the services answer.
BatchStep(s) ==
  \/ SingleSearchRequest(s)
  \/ PagedSearchRequest(s)
  \/ PagedSearchReturn(s)
  \/ CheckCorpus(s)
  \/ CheckProcessed(s)
  \/ SkipExisting(s)
  \/ MarkProcessed(s)
  \/ ResolveStep(s)
  \/ ResolveEnd(s)
  \/ StoreResult(s)
  \/ Sleep(s)

NextBatch ==
  \E s \in MixedOldInsts :
    \/ PagedSearchBegin(s)
    \/ BatchStep(s)
    \/ StoreFails(s)

\* Every request is answered, with a result or with an exception: a step
\* that can be taken is taken.
FairBatch ==
  Init /\ [][NextBatch]_vars /\ \A s \in MixedOldInsts : WF_vars(BatchStep(s))

\* C35: for every candidate list and every pattern of failures of the
\* search, the caption requests, the downloads and the transcriptions, a
\* build_corpus call that has started ends: it returns or it raises.
C35_BuildCorpusTerminates ==
  \A s \in MixedOldInsts :
    (search.pc \in {"single", "paging"}) ~> (pc[s] \in {"done", "raised"})

\* A call has ended after two search requests and two candidates, for one of
\* which every tier failed.
C35_Witness ==
  \E s \in MixedOldInsts :
    /\ pc[s] = "done"
    /\ search.requests = 2
    /\ Len(videos[s]) = 2
    /\ \E i \in 1..2 : log[s][i] = "unavailable"
    /\ \E i \in 1..2 : log[s][i] = "committed"

=============================================================================
